---- MODULE Spec2Model ----
(***************************************************************************)
(* Order history card (OrdersCard.tsx): the remote order query keyed by    *)
(* the status filter, the fallback to the locally cached orders, the       *)
(* review-button classification and the review submission handler.         *)
(*                                                                         *)
(* JavaScript values are represented as follows.  An optional string is a  *)
(* string, with Undefined standing for `undefined`; an optional value of   *)
(* another type is a sequence of length 0 (null / undefined) or 1.  A      *)
(* missing numeric field of a restaurant group reads as 0, which is what   *)
(* every use of it (`a || b`, `Number(x) || 0`) makes of undefined.        *)
(***************************************************************************)
EXTENDS Integers, Sequences, FiniteSets, TLC

VARIABLES
    statusFilter,       \* useState('done'), line 41
    isDragging,         \* useState(false), line 52
    isAuthenticated,    \* useAuth(), line 40
    reduxOrders,        \* useSelector(state.orders.orders), line 58
    queries,            \* the query cache entries ['orders', key], lines 61-79
    menuImages,         \* useMenuImages(ordersData), line 82
    myReviewsData,      \* useMyReviewsQuery data, lines 88-91
    now,                \* the clock read by new Date(), line 312
    searchQuery,        \* useState(''), line 42
    isReviewModalOpen,  \* useState(false), line 43
    selectedOrder,      \* useState(null), lines 44-49
    pending,            \* the reviewData of the mutateAsync calls that have
                        \* not settled, in the order they were made, line 190
    lastAlert           \* the category of the latest alert(), lines 168-230

vars == <<statusFilter, isDragging, isAuthenticated, reduxOrders, queries,
          menuImages, myReviewsData, now, searchQuery, isReviewModalOpen, selectedOrder,
          pending, lastAlert>>

fetchVars == <<statusFilter, isDragging, isAuthenticated, reduxOrders, queries,
               menuImages, myReviewsData, now, searchQuery>>

reviewVars == <<isReviewModalOpen, selectedOrder, pending, lastAlert>>

----------------------------------------------------------------------------
(* Bounds *)

MaxOrders == 2      \* orders in one response of the order service
MaxFetching == 2    \* order fetches in flight at the same time
MaxPending == 2     \* review submissions in flight at the same time
MaxTime == 1        \* clock readings

----------------------------------------------------------------------------
(* JavaScript helpers *)

Undefined == "<undefined>"

\* truthiness of an optional string
Truthy(s) == s # Undefined /\ s # ""

Range(s) == {s[i] : i \in DOMAIN s}

\* a || b on optional strings
OrStr(a, b) == IF Truthy(a) THEN a ELSE b

\* a || b on numbers (0 and undefined are both falsy)
OrNum(a, b) == IF a # 0 THEN a ELSE b

\* Number.prototype.toString for the numbers that occur
NumToString(n) ==
    CASE n = 0 -> "0"
      [] n = 1 -> "1"
      [] n = 2 -> "2"
      [] n = 5 -> "5"
      [] n = 7 -> "7"
      [] OTHER -> "n"

\* x.toString() where x is a number [num |-> n] or a string [str |-> s]
IdToString(x) == IF "num" \in DOMAIN x THEN NumToString(x.num) ELSE x.str

\* r.f for a numeric field f that may be missing
NumField(r, f) == IF f \in DOMAIN r THEN r[f] ELSE 0

\* A text is a sequence of words.  String.prototype.toLowerCase, word by word
LowerWord(w) ==
    CASE w = "Warung" -> "warung"
      [] w = "X" -> "x"
      [] w = "Nasi" -> "nasi"
      [] w = "Goreng" -> "goreng"
      [] w = "Sate" -> "sate"
      [] w = "Es" -> "es"
      [] w = "Teh" -> "teh"
      [] w = "Restaurant" -> "restaurant"
      [] w = "PIZZA" -> "pizza"
      [] w = "Already" -> "already"
      [] w = "Reviewed" -> "reviewed"
      [] w = "Transaction" -> "transaction"
      [] w = "Only" -> "only"
      [] w = "Request" -> "request"
      [] OTHER -> w

ToLowerCase(text) == [i \in 1..Len(text) |-> LowerWord(text[i])]

\* String.prototype.includes: sub occurs in text as a run of adjacent words
Includes(text, sub) ==
    \E k \in 0..(Len(text) - Len(sub)) :
        \A i \in 1..Len(sub) : text[k + i] = sub[i]

\* name.charAt(0).toUpperCase(): '' for the empty text
FirstCharUpper(text) ==
    IF Len(text) = 0 THEN ""
    ELSE CASE text[1] \in {"Nasi", "nasi"} -> "N"
           [] text[1] \in {"Sate", "sate"} -> "S"
           [] text[1] \in {"Es", "es"} -> "E"
           [] text[1] \in {"Teh", "teh"} -> "T"
           [] OTHER -> "?"

----------------------------------------------------------------------------
(* The data the collaborators can hand to the component *)

\* statusFilters, lines 343-349
StatusKeys == {"preparing", "on-the-way", "delivered", "done", "canceled"}

\* orders of the remote order service (the shape mappedOrders reads)
RemoteA ==
    [id |-> [num |-> 5], transactionId |-> "tx-5",
     restaurants |-> << [restaurantId |-> 12,
                         restaurantName |-> <<"Warung", "X">>,
                         items |-> << [menuId |-> 1,
                                       menuName |-> <<"Nasi", "Goreng">>,
                                       quantity |-> 2, price |-> 25000,
                                       image |-> Undefined] >>] >>,
     pricing |-> [totalPrice |-> 50000],
     status |-> "delivered", createdAt |-> "2025-01-05"]

RemoteB ==
    [id |-> [str |-> ""], transactionId |-> Undefined,
     restaurants |-> << [restaurant |-> [id |-> 4],
                         restaurantName |-> <<>>,
                         items |-> << [menuId |-> 2,
                                       menuName |-> <<"Sate">>,
                                       quantity |-> 1, price |-> 30000,
                                       image |-> "sate.png"] >>] >>,
     pricing |-> [totalPrice |-> 30000],
     status |-> "preparing", createdAt |-> "2025-01-06"]

RemoteC ==
    [id |-> [num |-> 7], transactionId |-> "tx-7",
     restaurants |-> <<>>,
     pricing |-> [totalPrice |-> 0],
     status |-> "done", createdAt |-> "2025-01-07"]

RemoteD ==
    [id |-> [num |-> 2], transactionId |-> "",
     restaurants |-> << [id |-> 3,
                         restaurantName |-> <<"Warung", "X">>,
                         items |-> <<>>] >>,
     pricing |-> [totalPrice |-> 10000],
     status |-> "delivered", createdAt |-> "2025-01-08"]

\* the orders the service holds, in the order it lists them
ServerOrders == <<RemoteA, RemoteB, RemoteC, RemoteD>>

\* orders of the local order slice (the shape fallbackReduxOrders reads)
LocalA ==
    [id |-> "local-1", restaurantId |-> 9,
     restaurantName |-> <<"Warung", "X">>, status |-> "done",
     items |-> << [id |-> "m1", name |-> <<"Es", "Teh">>, quantity |-> 1,
                   price |-> 5000, imageUrl |-> "teh.png"] >>,
     totalAmount |-> 5000, orderDate |-> "2025-01-01"]

LocalB ==
    [id |-> "tx-5", restaurantId |-> 0,
     restaurantName |-> <<>>, status |-> Undefined,
     items |-> << [id |-> "m2", name |-> <<"Nasi", "Goreng">>, quantity |-> 3,
                   price |-> 25000, imageUrl |-> Undefined] >>,
     totalAmount |-> 75000, orderDate |-> Undefined]

ReduxChoices == {<<>>, <<LocalA, LocalB>>}

\* what the menu image cache can hold: nothing, or an image for menu 1
MenuImageChoices == {[k \in {"1", "2"} |-> Undefined],
                     [k \in {"1", "2"} |-> IF k = "1" THEN "nasi.png" ELSE Undefined]}

\* ISO timestamps of the clock readings
ToISOString(t) == IF t = 0 THEN "2025-02-01T00:00:00Z"
                  ELSE IF t = 1 THEN "2025-02-01T00:00:01Z"
                  ELSE "2025-02-01T00:00:02Z"

----------------------------------------------------------------------------
(* The order query, lines 61-79 *)

\* ordersApi.getMyOrders(status): the responses the order service can give.
\* Without a status it returns orders of every status, with one only the
\* orders of that status.
GetMyOrders(status) ==
    LET ok(o) == status = Undefined \/ o.status = status
        Pick(S) == SelectSeq(ServerOrders, LAMBDA o : o \in S /\ ok(o))
    IN  {Pick(S) : S \in {T \in SUBSET Range(ServerOrders) : Cardinality(T) <= MaxOrders}}

\* the argument of getMyOrders for a filter key, line 68
QueryArg(key) == IF key = "done" THEN Undefined ELSE key

\* a cache entry that has never fetched.  fetchedFor records the argument of
\* the getMyOrders call whose response is held in data (<<>> with no data).
IdleQuery == [data |-> <<>>, fetchedFor |-> <<>>, fetching |-> FALSE,
              failureCount |-> 0, error |-> <<>>]

\* HTTP statuses a failed order fetch can carry
FetchStatuses == {401, 500}

\* the retry option without the test of status 401
RetryAnyStatus(failureCount, error) == failureCount < 2

\* the retry option, lines 71-78; error is the HTTP status of the failure
Retry(failureCount, error) ==
    IF error = 401 THEN FALSE ELSE failureCount < 2

\* a fetch starts: an entry without data goes back to loading
StartFetch(q) ==
    [q EXCEPT !.fetching = TRUE, !.failureCount = 0,
              !.error = IF q.data = <<>> THEN <<>> ELSE @]

\* the response of a fetch overwrites the entry on screen, whatever key the
\* fetch was issued for
StoreResponseOnScreen(qs, key, resp) ==
    [qs EXCEPT ![key] = [@ EXCEPT !.fetching = FALSE],
               ![statusFilter] = [data |-> <<resp>>, fetchedFor |-> <<QueryArg(key)>>,
                                  fetching |-> FALSE, failureCount |-> 0,
                                  error |-> <<>>]]

\* the response of a fetch is stored under the key the fetch was issued for
StoreResponse(qs, key, resp) ==
    [qs EXCEPT ![key] = [data |-> <<resp>>, fetchedFor |-> <<QueryArg(key)>>,
                         fetching |-> FALSE, failureCount |-> 0, error |-> <<>>]]

\* what useQuery returns for the current key
CurrentQuery == queries[statusFilter]
ordersData == CurrentQuery.data
isLoading == CurrentQuery.data = <<>> /\ CurrentQuery.fetching
error == CurrentQuery.error

Fetching == {k \in StatusKeys : queries[k].fetching}

----------------------------------------------------------------------------
(* The derived lists, lines 236-341 *)

\* restaurant id of a restaurant group, lines 247-252
\* (g is <<>> when the order has no restaurant group)
RestaurantIdOf(g) ==
    IF g = <<>> THEN 0
    ELSE LET r == g[1]
             nested == IF "restaurant" \in DOMAIN r
                       THEN NumField(r.restaurant, "id") ELSE 0
             rawId == OrNum(NumField(r, "restaurantId"),
                            OrNum(NumField(r, "id"), nested))
         IN  OrNum(rawId, 0)

\* image of a remote item, lines 271-278
RemoteItemImage(item, images) ==
    IF Truthy(item.image) THEN [src |-> item.image]
    ELSE IF Truthy(images[NumToString(item.menuId)])
         THEN [src |-> images[NumToString(item.menuId)]]
         ELSE [svg |-> FirstCharUpper(item.menuName)]

\* one element of mappedOrders, lines 237-284
MapApiOrder(apiOrder, images) ==
    LET g == SubSeq(apiOrder.restaurants, 1,
                    IF Len(apiOrder.restaurants) > 0 THEN 1 ELSE 0)
        name == IF g = <<>> THEN <<>> ELSE g[1].restaurantName
        its == IF g = <<>> THEN <<>> ELSE g[1].items
    IN  [id |-> IdToString(apiOrder.id),
         transactionId |-> apiOrder.transactionId,
         restaurantName |-> IF name # <<>> THEN name ELSE <<"Restaurant">>,
         restaurantId |-> RestaurantIdOf(g),
         restaurantLogo |-> "",
         status |-> apiOrder.status,
         items |-> [i \in 1..Len(its) |->
                      [id |-> NumToString(its[i].menuId),
                       name |-> its[i].menuName,
                       quantity |-> its[i].quantity,
                       price |-> its[i].price,
                       image |-> RemoteItemImage(its[i], images)]],
         total |-> apiOrder.pricing.totalPrice,
         orderDate |-> apiOrder.createdAt]

\* mappedOrders, lines 236-284
MappedOrdersOf(data, images) ==
    IF data = <<>> THEN <<>>
    ELSE [i \in 1..Len(data[1]) |-> MapApiOrder(data[1][i], images)]

mappedOrders == MappedOrdersOf(ordersData, menuImages)

\* image of a local item, lines 303-309
LocalItemImage(item) ==
    IF Truthy(item.imageUrl) THEN [src |-> item.imageUrl]
    ELSE [svg |-> FirstCharUpper(item.name)]

\* one element of fallbackReduxOrders, lines 289-315
MapReduxOrder(order, time) ==
    [id |-> order.id,
     transactionId |-> Undefined,
     restaurantName |-> IF order.restaurantName # <<>> THEN order.restaurantName
                        ELSE <<"Restaurant">>,
     restaurantId |-> OrNum(order.restaurantId, 1),
     restaurantLogo |-> "",
     status |-> OrStr(order.status, "done"),
     items |-> [i \in 1..Len(order.items) |->
                  [id |-> order.items[i].id,
                   name |-> order.items[i].name,
                   quantity |-> order.items[i].quantity,
                   price |-> order.items[i].price,
                   image |-> LocalItemImage(order.items[i])]],
     total |-> order.totalAmount,
     orderDate |-> OrStr(order.orderDate, ToISOString(time)),
     isLocalOrder |-> TRUE]

\* fallbackReduxOrders without the test that the remote list is empty
FallbackReduxOrdersAlways(mapped, local, time) ==
    IF Len(local) > 0
    THEN [i \in 1..Len(local) |-> MapReduxOrder(local[i], time)]
    ELSE <<>>

\* fallbackReduxOrders passing the local order id on as the transaction id
FallbackReduxOrdersWithTx(mapped, local, time) ==
    IF Len(mapped) = 0 /\ Len(local) > 0
    THEN [i \in 1..Len(local) |->
            [MapReduxOrder(local[i], time) EXCEPT !.transactionId = local[i].id]]
    ELSE <<>>

\* fallbackReduxOrders, lines 287-316
FallbackReduxOrders(mapped, local, time) ==
    IF Len(mapped) = 0 /\ Len(local) > 0
    THEN [i \in 1..Len(local) |-> MapReduxOrder(local[i], time)]
    ELSE <<>>

fallbackReduxOrders == FallbackReduxOrders(mappedOrders, reduxOrders, now)

\* allMappedOrders, line 319
allMappedOrders == mappedOrders \o fallbackReduxOrders

\* the isLocalOrder flag as the review button reads it, line 594
IsLocalOrder(order) == "isLocalOrder" \in DOMAIN order /\ order.isLocalOrder

\* matchesSearch, lines 323-328
MatchesSearch(order, query) ==
    \/ Includes(ToLowerCase(order.restaurantName), ToLowerCase(query))
    \/ \E i \in 1..Len(order.items) :
           Includes(ToLowerCase(order.items[i].name), ToLowerCase(query))

\* filteredOrders, lines 322-329
FilteredOrders(orders, query) ==
    SelectSeq(orders, LAMBDA o : MatchesSearch(o, query))

\* displayOrders, line 341
displayOrders == FilteredOrders(allMappedOrders, searchQuery)

\* the order cards on screen, lines 424-509: none while loading or in error
RenderedOrders ==
    IF isLoading THEN <<>>
    ELSE IF error # <<>> THEN <<>>
    ELSE displayOrders

----------------------------------------------------------------------------
(* The review button, lines 93-99 and 594-623 *)

\* what the review history query can return
ReviewChoices ==
    { <<>>,
      << [transactionId |-> "tx-5"] >>,
      << [transactionId |-> "tx-7"], [transactionId |-> ""],
         [transactionId |-> "local-1"] >> }

\* hasReviewedOrder, lines 94-99; reviewsData is <<>> before the query resolves
HasReviewedOrder(transactionId, reviewsData) ==
    IF ~Truthy(transactionId) \/ reviewsData = <<>> THEN FALSE
    ELSE \E i \in 1..Len(reviewsData[1]) :
             reviewsData[1][i].transactionId = transactionId

\* the review button without the isLocalOrder branch
ReviewButtonNoLocalCheck(order, reviewsData) ==
    IF HasReviewedOrder(OrStr(order.transactionId, ""), reviewsData)
    THEN "AlreadyReviewed"
    ELSE "Reviewable"

\* which of the three buttons an order card shows, lines 594-623
ReviewButton(order, reviewsData) ==
    IF IsLocalOrder(order) THEN "NotReviewable"
    ELSE IF HasReviewedOrder(OrStr(order.transactionId, ""), reviewsData)
         THEN "AlreadyReviewed"
         ELSE "Reviewable"

----------------------------------------------------------------------------
(* Review submission, lines 150-233 *)

\* what the user enters in the modal: a rating of 1..5 and a comment
ReviewInputs == {[rating |-> 1, comment |-> <<>>],
                 [rating |-> 5, comment |-> <<"good">>]}

\* the messages a failed submission can carry in response.data.message
Messages ==
    { <<>>,
      <<"Already", "Reviewed">>,
      <<"you", "can", "only", "review", "restaurants", "you", "ordered", "from">>,
      <<"Transaction", "not", "found">>,
      <<"order", "does", "not", "belong", "to", "you">>,
      <<"internal", "error">> }

\* HTTP statuses of a failed submission
Statuses == {400, 401, 404, 409, 500}

\* what mutateAsync can reject with.  error.response is <<[status, message]>>
\* (message = response.data.message, <<>> when the body has none) and <<>>
\* when the request got no response; error.message is the message of the
\* Error object itself.
SinkErrors ==
    {[response |-> <<r>>, message |-> <<"Request", "failed">>] :
        r \in [status : Statuses, message : Messages]}
    \cup {[response |-> <<>>, message |-> m] : m \in {<<>>, <<"Network", "Error">>}}

\* errorMessage and status after the parsing of lines 196-204
ParsedError(err) ==
    IF err.response # <<>> /\ err.response[1].message # <<>>
    THEN [errorMessage |-> err.response[1].message, status |-> err.response[1].status]
    ELSE IF err.message # <<>>
         THEN [errorMessage |-> err.message, status |-> 0]
         ELSE [errorMessage |-> <<"Unknown", "error", "occurred">>, status |-> 0]

\* the branches with the not-found test ahead of the status-400 test
AlertForNotFoundFirst(status, errorMessage) ==
    LET m == ToLowerCase(errorMessage) IN
    IF status = 409 \/ Includes(m, <<"already", "reviewed">>)
    THEN "DuplicateReview"
    ELSE IF status = 404 \/ Includes(m, <<"transaction", "not", "found">>)
                         \/ Includes(m, <<"does", "not", "belong", "to", "you">>)
    THEN "OrderNotFound"
    ELSE IF status = 400 /\ (Includes(m, <<"only", "review", "restaurants">>)
                             \/ Includes(m, <<"transaction", "not", "found">>))
    THEN "IneligibleRestaurant"
    ELSE IF status = 401
    THEN "Unauthenticated"
    ELSE "Unknown"

\* the branch of lines 208-231 that raises the alert
AlertFor(status, errorMessage) ==
    LET m == ToLowerCase(errorMessage) IN
    IF status = 409 \/ Includes(m, <<"already", "reviewed">>)
    THEN "DuplicateReview"
    ELSE IF status = 400 /\ (Includes(m, <<"only", "review", "restaurants">>)
                             \/ Includes(m, <<"transaction", "not", "found">>))
    THEN "IneligibleRestaurant"
    ELSE IF status = 401
    THEN "Unauthenticated"
    ELSE IF status = 404 \/ Includes(m, <<"transaction", "not", "found">>)
                         \/ Includes(m, <<"does", "not", "belong", "to", "you">>)
    THEN "OrderNotFound"
    ELSE "Unknown"

\* the catch block, lines 192-232
ClassifyError(err) ==
    LET parsed == ParsedError(err) IN AlertFor(parsed.status, parsed.errorMessage)

\* the alert of the catch block for each error the sink can reject with
ErrorAlert == [err \in SinkErrors |-> ClassifyError(err)]

\* the first guard without the test of the restaurant id
MissingOrderDataNullOnly(sel) == sel = <<>>

\* the first guard of handleSubmitReview, line 166
MissingOrderData(sel) == sel = <<>> \/ sel[1].restaurantId = 0

\* the transaction id resolved with the operands the other way round
ResolvedTransactionIdFromId(order) == OrStr(order.id, order.transactionId)

\* const transactionId = selectedOrder.transactionId || selectedOrder.id, line 174
ResolvedTransactionId(order) == OrStr(order.transactionId, order.id)

\* reviewData, lines 182-187
ReviewData(order, rating, comment) ==
    [transactionId |-> ResolvedTransactionId(order),
     restaurantId |-> order.restaurantId,
     star |-> rating,
     comment |-> comment]

\* s without its i-th element
RemoveAt(s, i) == SubSeq(s, 1, i - 1) \o SubSeq(s, i + 1, Len(s))

----------------------------------------------------------------------------
(* Initial state: the component has mounted; the order query has started   *)
(* when the user is authenticated (enabled: isAuthenticated, line 70).     *)

Init ==
    /\ statusFilter = "done"
    /\ isDragging = FALSE
    /\ isAuthenticated \in BOOLEAN
    /\ reduxOrders \in ReduxChoices
    /\ queries = [k \in StatusKeys |->
                    IF k = "done" /\ isAuthenticated THEN StartFetch(IdleQuery)
                    ELSE IdleQuery]
    /\ menuImages = [k \in {"1", "2"} |-> Undefined]
    /\ myReviewsData = <<>>
    /\ now = 0
    /\ searchQuery = <<>>
    /\ isReviewModalOpen = FALSE
    /\ selectedOrder = <<>>
    /\ pending = <<>>
    /\ lastAlert = "none"

----------------------------------------------------------------------------
(* Actions of the order list *)

\* handleMouseDown / handleTouchStart, lines 103-108 and 127-132
HandleMouseDown ==
    /\ ~isDragging
    /\ isDragging' = TRUE
    /\ UNCHANGED <<statusFilter, isAuthenticated, reduxOrders, queries,
                   menuImages, myReviewsData, now, searchQuery>>
    /\ UNCHANGED reviewVars

\* handleMouseUp / handleMouseLeave / handleTouchEnd, lines 118-124 and 141-143
HandleMouseUp ==
    /\ isDragging
    /\ isDragging' = FALSE
    /\ UNCHANGED <<statusFilter, isAuthenticated, reduxOrders, queries,
                   menuImages, myReviewsData, now, searchQuery>>
    /\ UNCHANGED reviewVars

\* click on a filter button, lines 396-400; the query observer moves to the
\* entry of the new key and fetches it when it has no data or is stale
SetStatusFilter(key, stale) ==
    /\ ~isDragging
    /\ key # statusFilter
    /\ statusFilter' = key
    /\ IF isAuthenticated /\ ~queries[key].fetching
          /\ (queries[key].data = <<>> \/ stale)
       THEN /\ Cardinality(Fetching) < MaxFetching
            /\ queries' = [queries EXCEPT ![key] = StartFetch(@)]
       ELSE UNCHANGED queries
    /\ UNCHANGED <<isDragging, isAuthenticated, reduxOrders, menuImages,
                   myReviewsData, now, searchQuery>>
    /\ UNCHANGED reviewVars

\* the current entry is refetched once it is stale (staleTime, line 69)
Refetch ==
    /\ isAuthenticated
    /\ ~CurrentQuery.fetching
    /\ Cardinality(Fetching) < MaxFetching
    /\ queries' = [queries EXCEPT ![statusFilter] = StartFetch(@)]
    /\ UNCHANGED <<statusFilter, isDragging, isAuthenticated, reduxOrders,
                   menuImages, myReviewsData, now, searchQuery>>
    /\ UNCHANGED reviewVars

\* a fetch resolves, lines 67-68
FetchSucceeds(key, resp) ==
    /\ queries[key].fetching
    /\ resp \in GetMyOrders(QueryArg(key))
    /\ queries' = StoreResponse(queries, key, resp)
    /\ UNCHANGED <<statusFilter, isDragging, isAuthenticated, reduxOrders,
                   menuImages, myReviewsData, now, searchQuery>>
    /\ UNCHANGED reviewVars

\* a fetch rejects with an HTTP status, lines 71-78
FetchFails(key, status) ==
    /\ queries[key].fetching
    /\ queries' = [queries EXCEPT ![key] =
                     IF Retry(@.failureCount, status)
                     THEN [@ EXCEPT !.failureCount = @ + 1]
                     ELSE [@ EXCEPT !.fetching = FALSE, !.error = <<status>>]]
    /\ UNCHANGED <<statusFilter, isDragging, isAuthenticated, reduxOrders,
                   menuImages, myReviewsData, now, searchQuery>>
    /\ UNCHANGED reviewVars

\* the menu image hook delivers its images
MenuImagesLoaded(images) ==
    /\ isAuthenticated
    /\ images # menuImages
    /\ menuImages' = images
    /\ UNCHANGED <<statusFilter, isDragging, isAuthenticated, reduxOrders,
                   queries, myReviewsData, now, searchQuery>>
    /\ UNCHANGED reviewVars

\* the review history query resolves, lines 88-91
ReviewsFetched(reviews) ==
    /\ isAuthenticated
    /\ myReviewsData # <<reviews>>
    /\ myReviewsData' = <<reviews>>
    /\ UNCHANGED <<statusFilter, isDragging, isAuthenticated, reduxOrders,
                   queries, menuImages, now, searchQuery>>
    /\ UNCHANGED reviewVars

\* the search box, line 367
SetSearchQuery(query) ==
    /\ query # searchQuery
    /\ searchQuery' = query
    /\ UNCHANGED <<statusFilter, isDragging, isAuthenticated, reduxOrders,
                   queries, menuImages, myReviewsData, now>>
    /\ UNCHANGED reviewVars

\* time passes
Tick ==
    /\ now < MaxTime
    /\ now' = now + 1
    /\ UNCHANGED <<statusFilter, isDragging, isAuthenticated, reduxOrders,
                   queries, menuImages, myReviewsData, searchQuery>>
    /\ UNCHANGED reviewVars

----------------------------------------------------------------------------
(* Actions of the review modal *)

\* handleOpenReviewModal, lines 151-158, from the Give Review button of a card
HandleOpenReviewModal(i) ==
    /\ i \in 1..Len(RenderedOrders)
    /\ ReviewButton(RenderedOrders[i], myReviewsData) = "Reviewable"
    /\ selectedOrder' = <<RenderedOrders[i]>>
    /\ isReviewModalOpen' = TRUE
    /\ UNCHANGED <<pending, lastAlert>>
    /\ UNCHANGED fetchVars

\* handleCloseReviewModal, lines 160-163
HandleCloseReviewModal ==
    /\ isReviewModalOpen
    /\ isReviewModalOpen' = FALSE
    /\ selectedOrder' = <<>>
    /\ UNCHANGED <<pending, lastAlert>>
    /\ UNCHANGED fetchVars

\* handleSubmitReview up to the await, lines 165-190
HandleSubmitReview(rating, comment) ==
    /\ IF MissingOrderData(selectedOrder)
       THEN /\ lastAlert' = "MissingOrderData"
            /\ UNCHANGED pending
       ELSE IF ~Truthy(ResolvedTransactionId(selectedOrder[1]))
       THEN /\ lastAlert' = "MissingTransactionId"
            /\ UNCHANGED pending
       ELSE /\ Len(pending) < MaxPending
            /\ pending' = Append(pending, ReviewData(selectedOrder[1], rating, comment))
            /\ UNCHANGED lastAlert
    /\ UNCHANGED <<isReviewModalOpen, selectedOrder>>
    /\ UNCHANGED fetchVars

\* mutateAsync resolves and handleSubmitReview resumes, line 191
SubmitSucceeds(i) ==
    /\ i \in 1..Len(pending)
    /\ pending' = RemoveAt(pending, i)
    /\ isReviewModalOpen' = FALSE
    /\ selectedOrder' = <<>>
    /\ UNCHANGED lastAlert
    /\ UNCHANGED fetchVars

\* a catch block that reports the failure and issues the call again
SubmitFailsAndResubmits(i, err) ==
    /\ i \in 1..Len(pending)
    /\ lastAlert' = ErrorAlert[err]
    /\ pending' = Append(RemoveAt(pending, i), pending[i])
    /\ UNCHANGED <<isReviewModalOpen, selectedOrder>>
    /\ UNCHANGED fetchVars

\* mutateAsync rejects and the catch block runs, lines 192-232
SubmitFails(i, err) ==
    /\ i \in 1..Len(pending)
    /\ lastAlert' = ErrorAlert[err]
    /\ pending' = RemoveAt(pending, i)
    /\ UNCHANGED <<isReviewModalOpen, selectedOrder>>
    /\ UNCHANGED fetchVars

----------------------------------------------------------------------------

Next ==
    \/ HandleMouseDown
    \/ HandleMouseUp
    \/ \E key \in StatusKeys, stale \in BOOLEAN : SetStatusFilter(key, stale)
    \/ Refetch
    \/ \E key \in StatusKeys : \E resp \in GetMyOrders(QueryArg(key)) : FetchSucceeds(key, resp)
    \/ \E key \in StatusKeys, status \in FetchStatuses : FetchFails(key, status)
    \/ \E images \in MenuImageChoices : MenuImagesLoaded(images)
    \/ \E reviews \in ReviewChoices : ReviewsFetched(reviews)
    \/ \E query \in {<<>>, <<"Nasi">>} : SetSearchQuery(query)
    \/ Tick
    \/ \E i \in 1..MaxOrders : HandleOpenReviewModal(i)
    \/ HandleCloseReviewModal
    \/ \E in \in ReviewInputs : HandleSubmitReview(in.rating, in.comment)
    \/ \E i \in 1..MaxPending : SubmitSucceeds(i)
    \/ \E i \in 1..MaxPending, err \in SinkErrors : SubmitFails(i, err)

Spec == Init /\ [][Next]_vars

\* The order list alone: filter changes and fetches that resolve.  The review
\* modal is never opened; the actions of the list read and write none of the
\* modal's variables.
NextOrders ==
    \/ \E key \in StatusKeys, stale \in BOOLEAN : SetStatusFilter(key, stale)
    \/ Refetch
    \/ \E key \in StatusKeys : \E resp \in GetMyOrders(QueryArg(key)) : FetchSucceeds(key, resp)

SpecOrders == Init /\ [][NextOrders]_vars

\* The review modal over the list of the initial filter: the filter, the
\* search box and the clock stay as they are after mounting.
NextReview ==
    \/ \E key \in StatusKeys : \E resp \in GetMyOrders(QueryArg(key)) : FetchSucceeds(key, resp)
    \/ \E reviews \in ReviewChoices : ReviewsFetched(reviews)
    \/ \E i \in 1..MaxOrders : HandleOpenReviewModal(i)
    \/ HandleCloseReviewModal
    \/ \E in \in ReviewInputs : HandleSubmitReview(in.rating, in.comment)
    \/ \E i \in 1..MaxPending : SubmitSucceeds(i)
    \/ \E i \in 1..MaxPending, err \in SinkErrors : SubmitFails(i, err)

SpecReview == Init /\ [][NextReview]_vars

\* The order query of the initial filter with fetches that fail: refetches
\* and fetches that resolve or reject.
NextRetry ==
    \/ Refetch
    \/ \E key \in StatusKeys : \E resp \in GetMyOrders(QueryArg(key)) : FetchSucceeds(key, resp)
    \/ \E key \in StatusKeys, status \in FetchStatuses : FetchFails(key, status)

SpecRetry == Init /\ [][NextRetry]_vars

\* The list of the initial filter as it is rendered again and again: the
\* fetch resolves, the menu images arrive, the user types in the search box
\* and time passes.
NextRender ==
    \/ \E key \in StatusKeys : \E resp \in GetMyOrders(QueryArg(key)) : FetchSucceeds(key, resp)
    \/ \E images \in MenuImageChoices : MenuImagesLoaded(images)
    \/ \E query \in {<<>>, <<"Nasi">>} : SetSearchQuery(query)
    \/ Tick

SpecRender == Init /\ [][NextRender]_vars

\* The submission handler alone: as NextReview, with the review history
\* never fetched, so that every remote order on screen can be opened.
NextSubmit ==
    \/ \E key \in StatusKeys : \E resp \in GetMyOrders(QueryArg(key)) : FetchSucceeds(key, resp)
    \/ \E i \in 1..MaxOrders : HandleOpenReviewModal(i)
    \/ HandleCloseReviewModal
    \/ \E in \in ReviewInputs : HandleSubmitReview(in.rating, in.comment)
    \/ \E i \in 1..MaxPending : SubmitSucceeds(i)
    \/ \E i \in 1..MaxPending, err \in SinkErrors : SubmitFails(i, err)

SpecSubmit == Init /\ [][NextSubmit]_vars

----------------------------------------------------------------------------
(* Source precedence and fallback *)

\* C1: whenever the order query holds at least one order, allMappedOrders is
\* the list of the normalized remote orders, in the same order, and none of
\* its elements comes from the local order slice.
C1_SourcePrecedence ==
    (ordersData # <<>> /\ Len(ordersData[1]) >= 1) =>
        /\ Len(allMappedOrders) = Len(ordersData[1])
        /\ \A i \in 1..Len(ordersData[1]) :
               /\ allMappedOrders[i] = MapApiOrder(ordersData[1][i], menuImages)
               /\ ~IsLocalOrder(allMappedOrders[i])

\* a non-empty remote list is shown while the local slice holds orders
C1_Witness ==
    /\ ordersData # <<>>
    /\ Len(ordersData[1]) = 2
    /\ Len(reduxOrders) = 2
    /\ RenderedOrders = allMappedOrders

\* C2: whenever the remote list is empty and the local slice is not,
\* allMappedOrders has one element per local order, each flagged isLocalOrder
\* and without a transaction id.
C2_FallbackMarking ==
    (Len(mappedOrders) = 0 /\ Len(reduxOrders) > 0) =>
        /\ Len(allMappedOrders) = Len(reduxOrders)
        /\ \A i \in 1..Len(allMappedOrders) :
               /\ allMappedOrders[i].id = reduxOrders[i].id
               /\ IsLocalOrder(allMappedOrders[i])
               /\ allMappedOrders[i].transactionId = Undefined

\* the order service answered with no orders and two local orders are shown
C2_Witness ==
    /\ ordersData = << <<>> >>
    /\ Len(reduxOrders) = 2
    /\ Len(RenderedOrders) = 2

----------------------------------------------------------------------------
(* Review eligibility *)

\* C3: every order of the list gets exactly one of the three buttons; an
\* order of local origin gets NotReviewable whatever the review history
\* holds; any other order gets AlreadyReviewed exactly when its transaction
\* id is present (a non-empty string) and is the transaction id of a fetched
\* review, and Reviewable otherwise.
C3_Eligibility ==
    \A i \in 1..Len(allMappedOrders) :
        LET order == allMappedOrders[i]
            button == ReviewButton(order, myReviewsData)
            present == order.transactionId \notin {Undefined, ""}
            reviewed == /\ myReviewsData # <<>>
                        /\ order.transactionId \in
                             {r.transactionId : r \in Range(myReviewsData[1])}
        IN  /\ button \in {"NotReviewable", "AlreadyReviewed", "Reviewable"}
            /\ IsLocalOrder(order) => button = "NotReviewable"
            /\ ~IsLocalOrder(order) =>
                 button = (IF present /\ reviewed THEN "AlreadyReviewed"
                           ELSE "Reviewable")

\* a reviewed order and an order with an empty transaction id are on screen
\* while the review history holds a review with an empty transaction id
C3_Witness ==
    /\ myReviewsData # <<>>
    /\ [transactionId |-> ""] \in Range(myReviewsData[1])
    /\ \E i \in 1..Len(RenderedOrders) :
           ReviewButton(RenderedOrders[i], myReviewsData) = "AlreadyReviewed"
    /\ \E i \in 1..Len(RenderedOrders) :
           /\ RenderedOrders[i].transactionId = ""
           /\ ReviewButton(RenderedOrders[i], myReviewsData) = "Reviewable"

----------------------------------------------------------------------------
(* The order query and the status filter *)

\* C7: the data used for the list is always the response of a fetch issued
\* for the current status filter, whatever fetches resolved in the meantime.
C7_LastRequestWins ==
    ordersData # <<>> =>
        /\ CurrentQuery.fetchedFor = <<QueryArg(statusFilter)>>
        /\ ordersData[1] \in GetMyOrders(QueryArg(statusFilter))

\* the list of a narrower filter is on screen while the cache also holds a
\* different response for the filter that was on screen before
C7_Witness ==
    /\ statusFilter = "delivered"
    /\ ordersData # <<>>
    /\ queries["done"].data # <<>>
    /\ \E i \in 1..Len(queries["done"].data[1]) :
           queries["done"].data[1][i].status # "delivered"

\* C8: under a status filter other than "done", once the fetch for that
\* filter has answered, every order on screen has the status of the filter.
C8_StatusFilterConstraint ==
    (statusFilter # "done" /\ ordersData # <<>>) =>
        \A i \in 1..Len(RenderedOrders) : RenderedOrders[i].status = statusFilter

----------------------------------------------------------------------------
(* Review submission *)

\* a step of handleSubmitReview
SubmitStep == \E in \in ReviewInputs : HandleSubmitReview(in.rating, in.comment)

C5_Status409IsDuplicate ==
    [][ \A i \in 1..MaxPending, err \in SinkErrors :
          (SubmitFails(i, err) /\ err.response # <<>> /\ err.response[1].status = 409)
          => lastAlert' = "DuplicateReview" ]_vars

\* C6: a submit made while a call for the selected order has not settled
\* makes no second call.
C6_SingleInFlight ==
    [][ (/\ SubmitStep
         /\ selectedOrder # <<>>
         /\ \E i \in 1..Len(pending) :
               /\ pending[i].restaurantId = selectedOrder[1].restaurantId
               /\ pending[i].transactionId \in
                    {selectedOrder[1].transactionId, selectedOrder[1].id})
        => pending' = pending ]_vars

\* C9: a submit that passes the first guard resolves the transaction id to
\* the order's transactionId when that is non-empty and to the order's id
\* otherwise; with an empty result it raises MissingTransactionId and makes
\* no call, and otherwise it makes exactly one call, with the payload
\* {transactionId, restaurantId, star, comment}.
C9_SubmitPayload ==
    [][ \A in \in ReviewInputs :
          (/\ HandleSubmitReview(in.rating, in.comment)
           /\ selectedOrder # <<>>
           /\ selectedOrder[1].restaurantId # 0)
          => LET order == selectedOrder[1]
                 tx == IF order.transactionId \notin {Undefined, ""}
                       THEN order.transactionId ELSE order.id
             IN  IF tx \in {Undefined, ""}
                 THEN /\ lastAlert' = "MissingTransactionId"
                      /\ pending' = pending
                 ELSE /\ pending' = Append(pending,
                                       [transactionId |-> tx,
                                        restaurantId |-> order.restaurantId,
                                        star |-> in.rating,
                                        comment |-> in.comment])
                      /\ lastAlert' = lastAlert ]_vars

\* one call is in flight with the transaction id taken from the order id and
\* one with the order's own transaction id
C9_Witness ==
    /\ Len(pending) = 2
    /\ pending[1] = [transactionId |-> "2", restaurantId |-> 3,
                     star |-> 5, comment |-> <<"good">>]
    /\ pending[2] = [transactionId |-> "tx-5", restaurantId |-> 12,
                     star |-> 1, comment |-> <<>>]

\* the rows of the failure table, in order: condition and category
FailureTable(status, message) ==
    LET m == ToLowerCase(message) IN
    << [holds |-> status = 409 \/ Includes(m, <<"already", "reviewed">>),
        category |-> "DuplicateReview"],
       [holds |-> /\ status = 400
                  /\ \/ Includes(m, <<"only", "review", "restaurants">>)
                     \/ Includes(m, <<"transaction", "not", "found">>),
        category |-> "IneligibleRestaurant"],
       [holds |-> status = 401, category |-> "Unauthenticated"],
       [holds |-> \/ status = 404
                  \/ Includes(m, <<"transaction", "not", "found">>)
                  \/ Includes(m, <<"does", "not", "belong", "to", "you">>),
        category |-> "OrderNotFound"],
       [holds |-> TRUE, category |-> "Unknown"] >>

\* the category of the first row that holds
FirstMatch(status, message) ==
    LET rows == FailureTable(status, message)
        first == CHOOSE k \in 1..Len(rows) :
                     rows[k].holds /\ \A j \in 1..(k - 1) : ~rows[j].holds
    IN  rows[first].category

\* the failures that carry a status and a response message
StructuredErrors ==
    {err \in SinkErrors : err.response # <<>> /\ err.response[1].message # <<>>}

\* the first-match category of each of them
FirstMatchOf ==
    [err \in StructuredErrors |->
        FirstMatch(err.response[1].status, err.response[1].message)]

----------------------------------------------------------------------------
(* Retry policy of the order query *)

\* C11: a failed fetch with status 401 is not retried; a failed fetch with
\* another status is retried exactly while fewer than 2 failures have been
\* counted, so that the count never passes 2 and the third failure in a row
\* leaves the entry in the error state, no longer fetching.
C11_RetryPolicy ==
    [][ \A key \in StatusKeys, status \in FetchStatuses :
          FetchFails(key, status) =>
            IF status # 401 /\ queries[key].failureCount < 2
            THEN /\ queries'[key].fetching
                 /\ queries'[key].failureCount = queries[key].failureCount + 1
                 /\ queries'[key].failureCount <= 2
                 /\ queries'[key].error = queries[key].error
            ELSE /\ ~queries'[key].fetching
                 /\ queries'[key].error = <<status>> ]_vars

\* a refetch has settled in the error state after two retries, the earlier
\* response still held
C11_Witness ==
    /\ ~CurrentQuery.fetching
    /\ CurrentQuery.failureCount = 2
    /\ CurrentQuery.error = <<500>>
    /\ CurrentQuery.data # <<>>

----------------------------------------------------------------------------
(* The normalizers *)

\* C12: normalizing the same raw order in two renders gives equal orders,
\* whatever happened between the renders: every local order of the slice and
\* every remote order of the service maps to the same order before and after
\* each step.
C12_NormalizerIdempotent ==
    [][ /\ \A i \in 1..Len(reduxOrders) :
             MapReduxOrder(reduxOrders[i], now') = MapReduxOrder(reduxOrders[i], now)
        /\ \A i \in 1..Len(ServerOrders) :
             MapApiOrder(ServerOrders[i], menuImages')
               = MapApiOrder(ServerOrders[i], menuImages) ]_vars

----------------------------------------------------------------------------
(* Outcome of a submission *)

\* the categories the catch block reports
FailureCategories ==
    {"DuplicateReview", "IneligibleRestaurant", "Unauthenticated",
     "OrderNotFound", "Unknown"}

\* C13: when a submission call succeeds the modal is closed and the selected
\* order cleared; when it fails the attempt ends with one category of
\* FailureCategories reported, the modal and the selection as they were and
\* the call gone from the calls in flight; and a call is only ever added to
\* the calls in flight by a step of handleSubmitReview.
C13_SubmissionOutcome ==
    [][ /\ \A i \in 1..MaxPending :
             SubmitSucceeds(i) =>
               /\ ~isReviewModalOpen'
               /\ selectedOrder' = <<>>
               /\ Len(pending') = Len(pending) - 1
        /\ \A err \in SinkErrors : \A i \in 1..MaxPending :
             SubmitFails(i, err) =>
               /\ lastAlert' \in FailureCategories
               /\ Len(pending') = Len(pending) - 1
               /\ isReviewModalOpen' = isReviewModalOpen
               /\ selectedOrder' = selectedOrder
        /\ Len(pending') >= Len(pending) => (pending' = pending \/ SubmitStep)
      ]_vars

\* a failed attempt has ended: its category is reported, no call is in
\* flight and the modal still shows the order
C13_Witness ==
    /\ lastAlert \in FailureCategories
    /\ pending = <<>>
    /\ isReviewModalOpen
    /\ selectedOrder # <<>>

----------------------------------------------------------------------------
(* A submission and the order it was issued for *)

\* the call in flight was issued for the order the modal shows
IssuedForSelected(call) ==
    /\ selectedOrder # <<>>
    /\ call.transactionId = ResolvedTransactionId(selectedOrder[1])
    /\ call.restaurantId = selectedOrder[1].restaurantId

\* C14: the modal is open exactly when an order is selected, and the
\* selection changes only when the user opens or closes the modal or when a
\* submission issued for the selected order completes.
C14_CompletionAffectsOwnOrder ==
    /\ [](isReviewModalOpen <=> selectedOrder # <<>>)
    /\ [][ selectedOrder' # selectedOrder =>
             \/ \E i \in 1..MaxOrders : HandleOpenReviewModal(i)
             \/ HandleCloseReviewModal
             \/ \E i \in 1..MaxPending :
                  /\ SubmitSucceeds(i)
                  /\ IssuedForSelected(pending[i]) ]_vars

====
